---------------------------- MODULE Spec2Model ----------------------------
(***************************************************************************)
(* kerala-news-api: the article analyzer (scraper.py) and its HTTP         *)
(* endpoint (api.py).                                                      *)
(*                                                                         *)
(* Text is a sequence of Unicode code points.  The collaborators the code  *)
(* delegates to (HTTP client, structured-article parser, date inference,   *)
(* translation service) are the environment: each call's outcome is chosen *)
(* nondeterministically among the outcomes the call can have.              *)
(***************************************************************************)
EXTENDS Integers, Sequences, FiniteSets, TLC

VARIABLES
    pc,            \* position in scrape / analyze_news_article (or in a helper call)
    url,           \* the request's url parameter
    fetched,       \* outcome of requests.get: "pending", "ok", "fail"
    html,          \* the page source analyze_news_article holds
    soup,          \* BeautifulSoup(html, "lxml")
    media_source,
    article,       \* the newspaper Article object (or no object)
    title,
    summary,
    found,         \* outcome of htmldate.find_date(url)
    pub_date_str,
    svcLog,        \* the texts handed to the translation service, in order
    result,        \* the record analyze_news_article returned
    exc,           \* the exception that left analyze_news_article
    response,      \* the endpoint's HTTP response
    arg,           \* argument of a helper called on its own
    ret            \* its return value

vars == <<pc, url, fetched, html, soup, media_source, article, title, summary,
          found, pub_date_str, svcLog, result, exc, response, arg, ret>>

pipelineVars == <<url, fetched, html, soup, media_source, article, title, summary,
                  found, pub_date_str, result, exc, response>>

(***************************************************************************)
(* Bounds of the model.                                                    *)
(***************************************************************************)
MaxPageLen == 5      \* tokens of a page body handed to extract_malayalam_text
MaxTextLen == 3      \* code points of a text handed to translate_text_if_needed
MaxPad == 1          \* code points around a date literal handed to extract_malayalam_date
MaxUpper == 2        \* upper-case letters in a domain label

(***************************************************************************)
(* Code points.                                                            *)
(***************************************************************************)
MAL_LO == 3328       \* U+0D00, first code point of [\u0D00-\u0D7F]
MAL_HI == 3455       \* U+0D7F, last code point of [\u0D00-\u0D7F]
SPACE == 32          \* " "
P_BREAK == -1        \* page source: a boundary between two <p> elements
NODE_BREAK == -2     \* page source: an inline tag splitting a <p>'s text in two nodes

None == <<-3>>       \* Python's None (no text is this sequence)

\* Unicode white space: what str.strip() removes and what \s matches
Whitespace == {9, 10, 11, 12, 13, 28, 29, 30, 31, 32, 133, 160, 5760, 8232, 8233, 8239, 8287, 12288}
                  \cup (8192..8202)

IsSpace(c) == c \in Whitespace
IsDigit(c) == c >= 48 /\ c <= 57

SeqsUpTo(S, n) == UNION {[1..k -> S] : k \in 0..n}

(***************************************************************************)
(* str methods                                                             *)
(***************************************************************************)
RECURSIVE lstrip(_)
lstrip(s) == IF s # <<>> /\ IsSpace(Head(s)) THEN lstrip(Tail(s)) ELSE s

RECURSIVE rstrip(_)
rstrip(s) == IF s # <<>> /\ IsSpace(s[Len(s)]) THEN rstrip(SubSeq(s, 1, Len(s) - 1)) ELSE s

strip(s) == rstrip(lstrip(s))

RECURSIVE join(_, _)
join(sep, parts) ==
    IF parts = <<>> THEN <<>>
    ELSE IF Len(parts) = 1 THEN parts[1]
    ELSE parts[1] \o sep \o join(sep, Tail(parts))

\* s split at every occurrence of the token brk
RECURSIVE SplitAt(_, _)
SplitAt(s, brk) ==
    IF \A i \in 1..Len(s) : s[i] # brk THEN <<s>>
    ELSE LET i == CHOOSE j \in 1..Len(s) : s[j] = brk /\ \A k \in 1..(j - 1) : s[k] # brk
         IN  <<SubSeq(s, 1, i - 1)>> \o SplitAt(SubSeq(s, i + 1, Len(s)), brk)

(***************************************************************************)
(* re.search(r"[\u0D00-\u0D7F]", text)                                     *)
(***************************************************************************)
IsMalayalam(c) == c >= MAL_LO /\ c <= MAL_HI

has_malayalam(text) == \E i \in 1..Len(text) : IsMalayalam(text[i])

(***************************************************************************)
(* re.sub(r"[^ \u0D00-\u0D7F]+", " ", text): every maximal run of code     *)
(* points outside the class is replaced by one space.                      *)
(***************************************************************************)
InClass(c) == c = SPACE \/ IsMalayalam(c)

RECURSIVE SkipRun(_)
SkipRun(s) == IF s # <<>> /\ ~InClass(Head(s)) THEN SkipRun(Tail(s)) ELSE s

RECURSIVE re_sub_delete(_)
re_sub_delete(s) ==
    IF s = <<>> THEN <<>>
    ELSE IF InClass(Head(s)) THEN <<Head(s)>> \o re_sub_delete(Tail(s))
    ELSE re_sub_delete(SkipRun(Tail(s)))

RECURSIVE re_sub(_)
re_sub(s) ==
    IF s = <<>> THEN <<>>
    ELSE IF InClass(Head(s)) THEN <<Head(s)>> \o re_sub(Tail(s))
    ELSE <<SPACE>> \o re_sub(SkipRun(Tail(s)))

(***************************************************************************)
(* BeautifulSoup(html, "lxml").  A page source is [hasTitle, title, body]: *)
(* the <title> element, if any, and the body's text as a sequence of code  *)
(* points with P_BREAK between <p> elements and NODE_BREAK between the     *)
(* text nodes of one <p>.  The soup holds soup.title, soup.find_all("p")   *)
(* (each <p> a sequence of text nodes) and soup.text.                      *)
(***************************************************************************)
EmptyHtml == [hasTitle |-> FALSE, title |-> <<>>, body |-> <<>>]

find_all_p(body) ==
    LET ps == SplitAt(body, P_BREAK)
    IN  [i \in 1..Len(ps) |-> SplitAt(ps[i], NODE_BREAK)]

BeautifulSoup(h) ==
    [title |-> IF h.hasTitle THEN h.title ELSE None,
     paras |-> IF h.body = <<>> THEN <<>> ELSE find_all_p(h.body),
     text  |-> (IF h.hasTitle THEN h.title ELSE <<>>)
               \o SelectSeq(h.body, LAMBDA c : c >= 0)]

\* p.get_text(" ", strip=True): the text nodes stripped, the empty ones dropped,
\* the rest joined by the separator
get_text(p) ==
    LET stripped == [i \in 1..Len(p) |-> strip(p[i])]
    IN  join(<<SPACE>>, SelectSeq(stripped, LAMBDA n : n # <<>>))

(***************************************************************************)
(* extract_malayalam_text(soup)                                            *)
(***************************************************************************)
RECURSIVE MalParas(_)
MalParas(ps) ==
    IF ps = <<>> THEN <<>>
    ELSE LET text == get_text(Head(ps))
         IN  (IF has_malayalam(text) THEN <<strip(re_sub(text))>> ELSE <<>>)
             \o MalParas(Tail(ps))

extract_malayalam_text(sp) ==
    LET mal == MalParas(sp.paras)
    IN  IF mal # <<>> THEN join(<<SPACE>>, mal) ELSE <<>>

(***************************************************************************)
(* The module's constant tables (scraper.py lines 24-44): each dict as the *)
(* sequence of its items, in the dict's order.                             *)
(***************************************************************************)
MEDIA_MAP ==
    << [key |-> <<109, 97, 110, 111, 114, 97, 109, 97, 111, 110, 108, 105, 110, 101>>,
        val |-> <<77, 97, 108, 97, 121, 97, 108, 97, 32, 77, 97, 110, 111, 114, 97, 109, 97>>],   \* "manoramaonline": "Malayala Manorama"
       [key |-> <<111, 110, 109, 97, 110, 111, 114, 97, 109, 97>>,
        val |-> <<79, 110, 109, 97, 110, 111, 114, 97, 109, 97>>],   \* "onmanorama": "Onmanorama"
       [key |-> <<109, 97, 116, 104, 114, 117, 98, 104, 117, 109, 105>>,
        val |-> <<77, 97, 116, 104, 114, 117, 98, 104, 117, 109, 105, 32, 78, 101, 119, 115>>],   \* "mathrubhumi": "Mathrubhumi News"
       [key |-> <<97, 115, 105, 97, 110, 101, 116, 110, 101, 119, 115>>,
        val |-> <<65, 115, 105, 97, 110, 101, 116, 32, 78, 101, 119, 115>>],   \* "asianetnews": "Asianet News"
       [key |-> <<107, 101, 114, 97, 108, 97, 107, 97, 117, 109, 117, 100, 105>>,
        val |-> <<75, 101, 114, 97, 108, 97, 32, 75, 97, 117, 109, 117, 100, 105>>],   \* "keralakaumudi": "Kerala Kaumudi"
       [key |-> <<106, 97, 110, 109, 97, 98, 104, 117, 109, 105>>,
        val |-> <<74, 97, 110, 109, 97, 98, 104, 117, 109, 105>>],   \* "janmabhumi": "Janmabhumi"
       [key |-> <<100, 101, 115, 104, 97, 98, 104, 105, 109, 97, 110, 105>>,
        val |-> <<68, 101, 115, 104, 97, 98, 104, 105, 109, 97, 110, 105>>],   \* "deshabhimani": "Deshabhimani"
       [key |-> <<110, 101, 119, 115, 49, 56>>,
        val |-> <<78, 101, 119, 115, 49, 56, 32, 77, 97, 108, 97, 121, 97, 108, 97, 109>>],   \* "news18": "News18 Malayalam"
       [key |-> <<116, 104, 101, 104, 105, 110, 100, 117>>,
        val |-> <<84, 104, 101, 32, 72, 105, 110, 100, 117>>],   \* "thehindu": "The Hindu"
       [key |-> <<116, 105, 109, 101, 115, 111, 102, 105, 110, 100, 105, 97>>,
        val |-> <<84, 105, 109, 101, 115, 32, 111, 102, 32, 73, 110, 100, 105, 97>>],   \* "timesofindia": "Times of India"
       [key |-> <<105, 110, 100, 105, 97, 116, 111, 100, 97, 121>>,
        val |-> <<73, 110, 100, 105, 97, 32, 84, 111, 100, 97, 121>>] >>   \* "indiatoday": "India Today"

MALAYALAM_MONTHS ==
    << [ml |-> <<3356, 3368, 3393, 3381, 3376, 3391>>,
        eng |-> <<74, 97, 110, 117, 97, 114, 121>>],   \* "January"
       [ml |-> <<3371, 3398, 3372, 3405, 3376, 3393, 3381, 3376, 3391>>,
        eng |-> <<70, 101, 98, 114, 117, 97, 114, 121>>],   \* "February"
       [ml |-> <<3374, 3390, 3452, 3354, 3405, 3354, 3405>>,
        eng |-> <<77, 97, 114, 99, 104>>],   \* "March"
       [ml |-> <<3343, 3370, 3405, 3376, 3391, 3453>>,
        eng |-> <<65, 112, 114, 105, 108>>],   \* "April"
       [ml |-> <<3374, 3399, 3375, 3405>>,
        eng |-> <<77, 97, 121>>],   \* "May"
       [ml |-> <<3356, 3394, 3450>>,
        eng |-> <<74, 117, 110, 101>>],   \* "June"
       [ml |-> <<3356, 3394, 3378, 3400>>,
        eng |-> <<74, 117, 108, 121>>],   \* "July"
       [ml |-> <<3334, 3351, 3384, 3405, 3377, 3405, 3377, 3405>>,
        eng |-> <<65, 117, 103, 117, 115, 116>>],   \* "August"
       [ml |-> <<3384, 3398, 3370, 3405, 3377, 3405, 3377, 3330, 3372, 3452>>,
        eng |-> <<83, 101, 112, 116, 101, 109, 98, 101, 114>>],   \* "September"
       [ml |-> <<3346, 3349, 3405, 3359, 3403, 3372, 3452>>,
        eng |-> <<79, 99, 116, 111, 98, 101, 114>>],   \* "October"
       [ml |-> <<3368, 3381, 3330, 3372, 3452>>,
        eng |-> <<78, 111, 118, 101, 109, 98, 101, 114>>],   \* "November"
       [ml |-> <<3361, 3391, 3384, 3330, 3372, 3452>>,
        eng |-> <<68, 101, 99, 101, 109, 98, 101, 114>>],   \* "December"
       [ml |-> <<3361, 3391, 3384, 3330>>,
        eng |-> <<68, 101, 99, 101, 109, 98, 101, 114>>] >>   \* "December"

\* calendar.month_name, the names %B matches
month_name ==
    << <<74, 97, 110, 117, 97, 114, 121>>,                    \* "January"
       <<70, 101, 98, 114, 117, 97, 114, 121>>,               \* "February"
       <<77, 97, 114, 99, 104>>,                              \* "March"
       <<65, 112, 114, 105, 108>>,                            \* "April"
       <<77, 97, 121>>,                                       \* "May"
       <<74, 117, 110, 101>>,                                 \* "June"
       <<74, 117, 108, 121>>,                                 \* "July"
       <<65, 117, 103, 117, 115, 116>>,                       \* "August"
       <<83, 101, 112, 116, 101, 109, 98, 101, 114>>,         \* "September"
       <<79, 99, 116, 111, 98, 101, 114>>,                    \* "October"
       <<78, 111, 118, 101, 109, 98, 101, 114>>,              \* "November"
       <<68, 101, 99, 101, 109, 98, 101, 114>> >>             \* "December"

(***************************************************************************)
(* translate_text_if_needed(text).  svc is what the translation service    *)
(* answers if it is called: [ok |-> FALSE] when the call raises, otherwise *)
(* the translated text.                                                    *)
(***************************************************************************)
calls_translator(text) == text # <<>> /\ has_malayalam(text)

translate_failure_gives_empty(text, svc) ==
    IF calls_translator(text)
    THEN IF svc.ok THEN svc.out ELSE <<>>
    ELSE text

translate_text_if_needed(text, svc) ==
    IF calls_translator(text)
    THEN IF svc.ok THEN svc.out ELSE text
    ELSE text

\* the service's log after translate_text_if_needed(text) run for the field by
Logged(log, by, text, svc) ==
    IF calls_translator(text)
    THEN Append(log, [by |-> by, text |-> text, outcome |-> svc])
    ELSE log

SvcOutputs == {<<69, 110>>, <<MAL_LO>>}     \* "En"; a text the service left in Malayalam
SvcOutcomes == {[ok |-> FALSE, out |-> <<>>]} \cup {[ok |-> TRUE, out |-> t] : t \in SvcOutputs}

(***************************************************************************)
(* datetime.strptime(s, fmt) and strftime("%Y-%m-%d").                     *)
(*                                                                         *)
(* strptime compiles the format to a regular expression (white space in    *)
(* the format becomes \s+), matches it at the start of s, and raises       *)
(* ValueError when it does not match, when text remains after the match,   *)
(* or when the fields are no date of the calendar.                         *)
(***************************************************************************)
FORMATS ==
    << <<"d", "ws", "B", "ws", "Y">>,          \* "%d %B %Y"
       <<"d", "-", "B", "-", "Y">>,            \* "%d-%B-%Y"
       <<"d", "ws", "B", ",", "ws", "Y">> >>   \* "%d %B, %Y"

lower(c) == IF c >= 65 /\ c <= 90 THEN c + 32 ELSE c
upper(c) == IF c >= 97 /\ c <= 122 THEN c - 32 ELSE c
lower_str(s) == [i \in 1..Len(s) |-> lower(s[i])]

StartsWith(s, p) == Len(s) >= Len(p) /\ SubSeq(s, 1, Len(p)) = p
Drop(s, n) == SubSeq(s, n + 1, Len(s))
DigitVal(c) == c - 48

\* %d: 3[0-1]|[1-2]\d|0[1-9]|[1-9]| [1-9]
DayParses(st) ==
    LET s == st.rest
        two(v) == [st EXCEPT !.d = v, !.rest = Drop(s, 2)]
    IN  (IF Len(s) >= 2 /\ s[1] = 51 /\ s[2] \in {48, 49}
            THEN {two(30 + DigitVal(s[2]))} ELSE {})
        \cup (IF Len(s) >= 2 /\ s[1] \in {49, 50} /\ IsDigit(s[2])
            THEN {two(10 * DigitVal(s[1]) + DigitVal(s[2]))} ELSE {})
        \cup (IF Len(s) >= 2 /\ s[1] = 48 /\ s[2] \in 49..57
            THEN {two(DigitVal(s[2]))} ELSE {})
        \cup (IF Len(s) >= 1 /\ s[1] \in 49..57
            THEN {[st EXCEPT !.d = DigitVal(s[1]), !.rest = Drop(s, 1)]} ELSE {})
        \cup (IF Len(s) >= 2 /\ s[1] = SPACE /\ s[2] \in 49..57
            THEN {two(DigitVal(s[2]))} ELSE {})

\* %B: one of the full month names, letter case ignored
MonthParses(st) ==
    {[st EXCEPT !.m = m, !.rest = Drop(st.rest, Len(month_name[m]))] :
        m \in {k \in 1..12 :
                 /\ Len(st.rest) >= Len(month_name[k])
                 /\ lower_str(SubSeq(st.rest, 1, Len(month_name[k]))) = lower_str(month_name[k])}}

\* %Y: \d\d\d\d
YearParses(st) ==
    LET s == st.rest
    IN  IF Len(s) >= 4 /\ \A i \in 1..4 : IsDigit(s[i])
        THEN {[st EXCEPT !.y = 1000 * DigitVal(s[1]) + 100 * DigitVal(s[2])
                                 + 10 * DigitVal(s[3]) + DigitVal(s[4]),
                         !.rest = Drop(s, 4)]}
        ELSE {}

\* \s+ (what follows it in these formats never starts with white space)
WsParses(st) ==
    IF st.rest # <<>> /\ IsSpace(Head(st.rest)) THEN {[st EXCEPT !.rest = lstrip(st.rest)]} ELSE {}

LitParses(st, c) ==
    IF st.rest # <<>> /\ Head(st.rest) = c THEN {[st EXCEPT !.rest = Tail(st.rest)]} ELSE {}

Directive(tok, st) ==
    CASE tok = "d"  -> DayParses(st)
      [] tok = "B"  -> MonthParses(st)
      [] tok = "Y"  -> YearParses(st)
      [] tok = "ws" -> WsParses(st)
      [] tok = "-"  -> LitParses(st, 45)
      [] tok = ","  -> LitParses(st, 44)

RECURSIVE MatchFmt(_, _)
MatchFmt(fmt, sts) ==
    IF fmt = <<>> THEN sts
    ELSE MatchFmt(Tail(fmt), UNION {Directive(Head(fmt), st) : st \in sts})

IsLeap(y) == y % 4 = 0 /\ (y % 100 # 0 \/ y % 400 = 0)

DaysIn(y, m) ==
    IF m = 2 THEN (IF IsLeap(y) THEN 29 ELSE 28)
    ELSE IF m \in {4, 6, 9, 11} THEN 30 ELSE 31

NoDate == [y |-> 0, m |-> 0, d |-> 0]

\* the date parsed, or NoDate where strptime raises ValueError
strptime(s, fmt) ==
    LET whole == {st \in MatchFmt(fmt, {[d |-> 0, m |-> 0, y |-> 0, rest |-> s]}) : st.rest = <<>>}
    IN  IF whole = {} THEN NoDate
        ELSE LET st == CHOOSE x \in whole : TRUE
             IN  IF st.y >= 1 /\ st.d <= DaysIn(st.y, st.m)
                 THEN [y |-> st.y, m |-> st.m, d |-> st.d]
                 ELSE NoDate

Digit(n) == 48 + (n % 10)
TwoDigits(n) == <<Digit(n \div 10), Digit(n)>>
FourDigits(n) == <<Digit(n \div 1000), Digit(n \div 100), Digit(n \div 10), Digit(n)>>

\* date.strftime("%Y-%m-%d")
strftime(date) == FourDigits(date.y) \o <<45>> \o TwoDigits(date.m) \o <<45>> \o TwoDigits(date.d)

(***************************************************************************)
(* extract_malayalam_date(text)                                            *)
(***************************************************************************)
Contains(text, sub) ==
    \E i \in 1..(Len(text) - Len(sub) + 1) : SubSeq(text, i, i + Len(sub) - 1) = sub

\* text.replace(old, new): every occurrence, left to right, not overlapping
RECURSIVE replace(_, _, _)
replace(text, old, new) ==
    IF text = <<>> THEN <<>>
    ELSE IF StartsWith(text, old) THEN new \o replace(Drop(text, Len(old)), old, new)
    ELSE <<Head(text)>> \o replace(Tail(text), old, new)

\* the first format, from the k-th on, that parses fixed; None when none does
RECURSIVE TryFormats(_, _)
TryFormats(fixed, k) ==
    IF k > Len(FORMATS) THEN None
    ELSE LET date == strptime(fixed, FORMATS[k])
         IN  IF date # NoDate THEN strftime(date) ELSE TryFormats(fixed, k + 1)

\* the months from the k-th on, in the dict's order
RECURSIVE TryMonths(_, _)
TryMonths(text, k) ==
    IF k > Len(MALAYALAM_MONTHS) THEN None
    ELSE IF Contains(text, MALAYALAM_MONTHS[k].ml)
         THEN LET r == TryFormats(replace(text, MALAYALAM_MONTHS[k].ml, MALAYALAM_MONTHS[k].eng), 1)
              IN  IF r # None THEN r ELSE TryMonths(text, k + 1)
         ELSE TryMonths(text, k + 1)

extract_malayalam_date(text) == TryMonths(text, 1)

(***************************************************************************)
(* tldextract.extract(url).domain: the host is what follows "://" up to    *)
(* the first "/", "?" or "#"; its labels are split at "."; the longest run *)
(* of trailing labels that is a public suffix (letter case ignored) is the *)
(* suffix and the label before it the domain; with no public suffix the    *)
(* last label is the domain.                                               *)
(***************************************************************************)
SCHEME_SEP == <<58, 47, 47>>     \* "://"

PUBLIC_SUFFIXES ==
    { << <<99, 111, 109>> >>,                    \* com
      << <<105, 110>> >>,                        \* in
      << <<99, 111>>, <<105, 110>> >> }          \* co.in

\* the index at which sub first occurs in text, 0 when it does not
IndexOf(text, sub) ==
    IF Contains(text, sub)
    THEN CHOOSE i \in 1..(Len(text) - Len(sub) + 1) :
            /\ SubSeq(text, i, i + Len(sub) - 1) = sub
            /\ \A j \in 1..(i - 1) : SubSeq(text, j, j + Len(sub) - 1) # sub
    ELSE 0

\* s up to the first code point that is in stops
RECURSIVE UpTo(_, _)
UpTo(s, stops) ==
    IF s = <<>> \/ Head(s) \in stops THEN <<>> ELSE <<Head(s)>> \o UpTo(Tail(s), stops)

Netloc(u) ==
    LET i == IndexOf(u, SCHEME_SEP)
        afterScheme == IF i = 0 THEN u ELSE Drop(u, i + 2)
    IN  UpTo(afterScheme, {47, 63, 35})          \* "/", "?", "#"

\* the number of trailing labels that form the longest public suffix
SuffixLen(labels) ==
    LET n == Len(labels)
        lowered == [i \in 1..n |-> lower_str(labels[i])]
        ks == {k \in 1..n : SubSeq(lowered, n - k + 1, n) \in PUBLIC_SUFFIXES}
    IN  IF ks = {} THEN 0 ELSE CHOOSE k \in ks : \A j \in ks : j <= k

tldextract_domain(u) ==
    LET labels == SplitAt(Netloc(u), 46)         \* "."
        n == Len(labels)
        k == SuffixLen(labels)
    IN  IF k = 0 THEN labels[n]
        ELSE IF k = n THEN <<>>
        ELSE labels[n - k]

(***************************************************************************)
(* media_source = MEDIA_MAP.get(domain, domain.capitalize())               *)
(***************************************************************************)
capitalize(s) == [i \in 1..Len(s) |-> IF i = 1 THEN upper(s[i]) ELSE lower(s[i])]

MEDIA_MAP_get(key, default) ==
    IF \E i \in 1..Len(MEDIA_MAP) : MEDIA_MAP[i].key = key
    THEN MEDIA_MAP[CHOOSE i \in 1..Len(MEDIA_MAP) : MEDIA_MAP[i].key = key].val
    ELSE default

media_source_case_sensitive(u) ==
    LET domain == tldextract_domain(u)
    IN  MEDIA_MAP_get(domain, capitalize(domain))

media_source_of(u) ==
    LET domain == lower_str(tldextract_domain(u))
    IN  MEDIA_MAP_get(domain, capitalize(domain))

(***************************************************************************)
(* re.search(r"/(\d{4})[/-](\d{2})[/-](\d{2})", url): the leftmost match's  *)
(* three groups, or NoMatch.                                               *)
(***************************************************************************)
NoMatch == <<>>

MatchesAt(u, i) ==
    /\ i + 10 <= Len(u)
    /\ u[i] = 47
    /\ \A j \in 1..4 : IsDigit(u[i + j])
    /\ u[i + 5] \in {47, 45}
    /\ \A j \in 6..7 : IsDigit(u[i + j])
    /\ u[i + 8] \in {47, 45}
    /\ \A j \in 9..10 : IsDigit(u[i + j])

re_search_url_date(u) ==
    LET at == {i \in 1..Len(u) : MatchesAt(u, i)}
    IN  IF at = {} THEN NoMatch
        ELSE LET i == CHOOSE k \in at : \A j \in at : k <= j
             IN  <<SubSeq(u, i + 1, i + 4), SubSeq(u, i + 6, i + 7), SubSeq(u, i + 9, i + 10)>>

(***************************************************************************)
(* analyze_news_article(url), step by step.                                *)
(***************************************************************************)
NO_TITLE == <<78, 111, 32, 84, 105, 116, 108, 101, 32, 70, 111, 117, 110, 100>>   \* "No Title Found"

NO_SUMMARY ==      \* "No readable Malayalam content found."
    <<78, 111, 32, 114, 101, 97, 100, 97, 98, 108, 101, 32, 77, 97, 108, 97, 121, 97, 108, 97, 109,
      32, 99, 111, 110, 116, 101, 110, 116, 32, 102, 111, 117, 110, 100, 46>>

NO_DATE == <<68, 97, 116, 101, 32, 78, 111, 116, 32, 70, 111, 117, 110, 100>>     \* "Date Not Found"

\* Python's truth value of an optional text
Truthy(text) == text # None /\ text # <<>>

\* lines 105-121.  The except branch runs when Config(), Article(),
\* download() or parse() raised: article.state is then not "parsed".
title_of(art, sp) ==
    IF art.state = "parsed"
    THEN IF art.title # <<>> THEN strip(art.title) ELSE NO_TITLE
    ELSE IF sp.title # None THEN strip(sp.title) ELSE NO_TITLE

\* lines 128-129
summary_translates_always(sp, svc) ==
    translate_text_if_needed(extract_malayalam_text(sp), svc)

summary_of(sp, svc) ==
    LET mal_text == extract_malayalam_text(sp)
    IN  IF mal_text # <<>> THEN translate_text_if_needed(mal_text, svc) ELSE NO_SUMMARY

summary_log(log, sp, svc) ==
    LET mal_text == extract_malayalam_text(sp)
    IN  IF mal_text # <<>> THEN Logged(log, "summary", mal_text, svc) ELSE log

\* lines 137-142: fd is find_date's outcome, [raised, value]
method_a(fd) == IF ~fd.raised /\ Truthy(fd.value) THEN fd.value ELSE None

\* lines 145-148
method_b(pub, sp) ==
    IF ~Truthy(pub)
    THEN LET parsed == extract_malayalam_date(sp.text)
         IN  IF Truthy(parsed) THEN parsed ELSE pub
    ELSE pub

\* lines 151-155: publish_date is nothing, a datetime, or an object whose
\* strftime raises
method_c(pub, art) ==
    IF ~Truthy(pub) /\ art.state # "none" /\ art.publish_date.kind # "none"
    THEN IF art.publish_date.kind = "datetime" THEN strftime(art.publish_date.date) ELSE pub
    ELSE pub

\* lines 158-160
method_d_overwrites(pub, u) ==
    LET match == re_search_url_date(u)
    IN  IF match # NoMatch
        THEN match[1] \o <<45>> \o match[2] \o <<45>> \o match[3]
        ELSE pub

method_d(pub, u) ==
    LET match == re_search_url_date(u)
    IN  IF ~Truthy(pub) /\ match # NoMatch
        THEN match[1] \o <<45>> \o match[2] \o <<45>> \o match[3]
        ELSE pub

\* lines 162-163
date_without_sentinel(pub) == pub

date_or_sentinel(pub) == IF ~Truthy(pub) THEN NO_DATE ELSE pub

\* lines 168-174
record_with_url_cut_at_query(u, ms, date, t, s) ==
    [url |-> UpTo(u, {63}), media_source |-> ms, date |-> date, title |-> t, summary |-> s]

record_of(u, ms, date, t, s) ==
    [url |-> u, media_source |-> ms, date |-> date, title |-> t, summary |-> s]

(***************************************************************************)
(* The environment: the request, and what each collaborator may answer.    *)
(***************************************************************************)
UrlString(scheme, host, path, query) == scheme \o SCHEME_SEP \o join(<<46>>, host) \o path \o query

HTTPS == <<104, 116, 116, 112, 115>>                                  \* "https"
NEWS18_HOST == << <<119, 119, 119>>, <<110, 101, 119, 115, 49, 56>>, <<99, 111, 109>> >>   \* www.news18.com
DATED_HOST == << <<50, 48, 50, 48, 45, 48, 50, 45, 48, 51>>, <<99, 111, 109>> >>           \* 2020-02-03.com
PATH_NEWS == <<47, 110, 101, 119, 115>>                               \* "/news"
PATH_DATED == <<47, 50, 48, 50, 52, 47, 49, 50, 47, 48, 55, 47>>      \* "/2024/12/07/"
PATH_MIXED == <<47, 50, 48, 50, 49, 45, 48, 53, 47, 48, 54>>          \* "/2021-05/06"
PATH_SHORT_MONTH == <<47, 50, 48, 50, 52, 47, 49, 47, 48, 55>>        \* "/2024/1/07"
QUERY_DATED == <<63, 112, 61, 47, 50, 48, 49, 57, 47, 48, 56, 47, 48, 57>>   \* "?p=/2019/08/09"

Urls ==
    {UrlString(HTTPS, NEWS18_HOST, p, q) :
        p \in {PATH_NEWS, PATH_DATED, PATH_MIXED, PATH_SHORT_MONTH}, q \in {<<>>, QUERY_DATED}}
    \cup {UrlString(HTTPS, DATED_HOST, PATH_NEWS, <<>>)}

DATE_LITERAL ==    \* "7 \u0D21\u0D3F\u0D38\u0D02\u0D2C\u0D7C 2024", the docstring's example
    <<55, 32, 3361, 3391, 3384, 3330, 3372, 3452, 32, 50, 48, 50, 52>>

LATIN_TITLE == <<32, 78, 101, 119, 115, 10>>      \* " News\n"
MAL_TITLE == <<3381, 3390, 3452>>                 \* a title in Malayalam

Pages ==
    { EmptyHtml,
      \* a page in English
      [hasTitle |-> TRUE, title |-> LATIN_TITLE, body |-> <<97, 98>>],
      \* a Malayalam page: a mixed paragraph of two text nodes, then an English one
      [hasTitle |-> TRUE, title |-> MAL_TITLE,
       body |-> <<3381, 97, 3390, NODE_BREAK, 32, 3452, P_BREAK, 97, 98>>],
      \* a page whose whole text is a Malayalam date
      [hasTitle |-> FALSE, title |-> <<>>, body |-> DATE_LITERAL],
      \* a page that holds a Malayalam date after its title
      [hasTitle |-> TRUE, title |-> LATIN_TITLE, body |-> DATE_LITERAL],
      \* an empty <title>
      [hasTitle |-> TRUE, title |-> <<>>, body |-> <<>>] }

NoPublishDate == [kind |-> "none", date |-> NoDate]
NoArticle == [state |-> "none", title |-> <<>>, publish_date |-> NoPublishDate]
NoSoup == [title |-> None, paras |-> <<>>, text |-> <<>>]
PublishDates ==
    { NoPublishDate,
      [kind |-> "datetime", date |-> [y |-> 2022, m |-> 3, d |-> 4]],
      [kind |-> "other", date |-> NoDate] }

\* what Article(url).download() and parse() leave behind
ArticleOutcomes ==
    { NoArticle,                                                   \* Config() or Article() raised
      [state |-> "download_failed", title |-> <<>>, publish_date |-> NoPublishDate] }
    \cup {[state |-> "parse_failed", title |-> <<>>, publish_date |-> pd] : pd \in PublishDates}
    \cup {[state |-> "parsed", title |-> t, publish_date |-> pd] :
             t \in {<<>>, LATIN_TITLE, MAL_TITLE}, pd \in PublishDates}

FindDateOutcomes ==
    { [raised |-> TRUE, value |-> None],
      [raised |-> FALSE, value |-> None],
      [raised |-> FALSE, value |-> <<50, 48, 50, 51, 45, 48, 49, 45, 49, 53>>] }   \* "2023-01-15"

\* exceptions of the calls no try block guards
Exceptions == {[msg |-> <<98, 111, 111, 109>>], [msg |-> <<>>]}     \* "boom", ""
NoException == [msg |-> None]

NoResponse == [status |-> 0]
NoFound == [raised |-> FALSE, value |-> None]

\* the state before analyze_news_article is entered
PipelineIdle ==
    /\ fetched = "pending"
    /\ html = EmptyHtml
    /\ soup = NoSoup
    /\ media_source = None
    /\ article = NoArticle
    /\ title = None
    /\ summary = None
    /\ found = NoFound
    /\ pub_date_str = None
    /\ result = <<>>
    /\ exc = NoException
    /\ response = NoResponse

Init ==
    /\ pc = "fetch"
    /\ url \in Urls
    /\ PipelineIdle
    /\ svcLog = <<>>
    /\ arg = None
    /\ ret = None

\* lines 90-91: requests.get answers
FetchOk ==
    /\ pc = "fetch"
    /\ \E h \in Pages : html' = h
    /\ fetched' = "ok"
    /\ pc' = "parse"
    /\ UNCHANGED <<url, soup, media_source, article, title, summary, found, pub_date_str,
                   svcLog, result, exc, response, arg, ret>>

\* lines 92-93: requests.get raises
FetchFail ==
    /\ pc = "fetch"
    /\ html' = EmptyHtml
    /\ fetched' = "fail"
    /\ pc' = "parse"
    /\ UNCHANGED <<url, soup, media_source, article, title, summary, found, pub_date_str,
                   svcLog, result, exc, response, arg, ret>>

\* line 95
ParseHtml ==
    /\ pc = "parse"
    /\ soup' = BeautifulSoup(html)
    /\ pc' = "publisher"
    /\ UNCHANGED <<url, fetched, html, media_source, article, title, summary, found,
                   pub_date_str, svcLog, result, exc, response, arg, ret>>

\* lines 98-100
Publisher ==
    /\ pc = "publisher"
    /\ media_source' = media_source_of(url)
    /\ pc' = "title"
    /\ UNCHANGED <<url, fetched, html, soup, article, title, summary, found,
                   pub_date_str, svcLog, result, exc, response, arg, ret>>

\* lines 95 and 98: BeautifulSoup(html, "lxml") or tldextract.extract(url) raises;
\* no try block holds them
Unguarded ==
    /\ pc \in {"parse", "publisher"}
    /\ \E e \in Exceptions : exc' = e
    /\ pc' = "raised"
    /\ UNCHANGED <<url, fetched, html, soup, media_source, article, title, summary, found,
                   pub_date_str, svcLog, result, response, arg, ret>>

\* lines 105-121
Title ==
    /\ pc = "title"
    /\ \E a \in ArticleOutcomes :
          /\ article' = a
          /\ title' = title_of(a, soup)
    /\ pc' = "translate_title"
    /\ UNCHANGED <<url, fetched, html, soup, media_source, summary, found,
                   pub_date_str, svcLog, result, exc, response, arg, ret>>

\* line 123
TranslateTitle ==
    /\ pc = "translate_title"
    /\ \E svc \in SvcOutcomes :
          /\ title' = translate_text_if_needed(title, svc)
          /\ svcLog' = Logged(svcLog, "title", title, svc)
    /\ pc' = "summary"
    /\ UNCHANGED <<url, fetched, html, soup, media_source, article, summary, found,
                   pub_date_str, result, exc, response, arg, ret>>

\* lines 128-129
Summary ==
    /\ pc = "summary"
    /\ \E svc \in SvcOutcomes :
          /\ summary' = summary_of(soup, svc)
          /\ svcLog' = summary_log(svcLog, soup, svc)
    /\ pc' = "date_a"
    /\ UNCHANGED <<url, fetched, html, soup, media_source, article, title, found,
                   pub_date_str, result, exc, response, arg, ret>>

\* lines 134-142
MethodA ==
    /\ pc = "date_a"
    /\ \E fd \in FindDateOutcomes :
          /\ found' = fd
          /\ pub_date_str' = method_a(fd)
    /\ pc' = "date_b"
    /\ UNCHANGED <<url, fetched, html, soup, media_source, article, title, summary,
                   svcLog, result, exc, response, arg, ret>>

\* lines 145-148
MethodB ==
    /\ pc = "date_b"
    /\ pub_date_str' = method_b(pub_date_str, soup)
    /\ pc' = "date_c"
    /\ UNCHANGED <<url, fetched, html, soup, media_source, article, title, summary, found,
                   svcLog, result, exc, response, arg, ret>>

\* lines 151-155
MethodC ==
    /\ pc = "date_c"
    /\ pub_date_str' = method_c(pub_date_str, article)
    /\ pc' = "date_d"
    /\ UNCHANGED <<url, fetched, html, soup, media_source, article, title, summary, found,
                   svcLog, result, exc, response, arg, ret>>

\* lines 158-160
MethodD ==
    /\ pc = "date_d"
    /\ pub_date_str' = method_d(pub_date_str, url)
    /\ pc' = "return"
    /\ UNCHANGED <<url, fetched, html, soup, media_source, article, title, summary, found,
                   svcLog, result, exc, response, arg, ret>>

\* lines 162-174
Return ==
    /\ pc = "return"
    /\ pub_date_str' = date_or_sentinel(pub_date_str)
    /\ result' = <<record_of(url, media_source, date_or_sentinel(pub_date_str), title, summary)>>
    /\ pc' = "returned"
    /\ UNCHANGED <<url, fetched, html, soup, media_source, article, title, summary, found,
                   svcLog, exc, response, arg, ret>>

(***************************************************************************)
(* scrape(url), api.py                                                     *)
(***************************************************************************)
response_error_fixed_detail(e) ==
    [status |-> 500, detail |-> <<101, 114, 114, 111, 114>>]     \* "error"

JSONResponse(data) == [status |-> 200, content |-> data]

HTTPException(e) == [status |-> 500, detail |-> e.msg]

\* lines 15-16
ScrapeReturns ==
    /\ pc = "returned"
    /\ response' = JSONResponse(result[1])
    /\ pc' = "responded"
    /\ UNCHANGED <<url, fetched, html, soup, media_source, article, title, summary, found,
                   pub_date_str, svcLog, result, exc, arg, ret>>

\* lines 17-18
ScrapeRaises ==
    /\ pc = "raised"
    /\ response' = HTTPException(exc)
    /\ pc' = "responded"
    /\ UNCHANGED <<url, fetched, html, soup, media_source, article, title, summary, found,
                   pub_date_str, svcLog, result, exc, arg, ret>>

Next ==
    \/ FetchOk \/ FetchFail \/ ParseHtml \/ Publisher \/ Unguarded
    \/ Title \/ TranslateTitle \/ Summary
    \/ MethodA \/ MethodB \/ MethodC \/ MethodD \/ Return
    \/ ScrapeReturns \/ ScrapeRaises

Spec == Init /\ [][Next]_vars

(***************************************************************************)
(* extract_malayalam_text called on its own, on every page body of at most *)
(* MaxPageLen tokens.                                                      *)
(***************************************************************************)
BodyTokens == {SPACE, MAL_LO, MAL_HI, MAL_HI + 1, NODE_BREAK, P_BREAK}

BodyHtml(body) == [hasTitle |-> FALSE, title |-> <<>>, body |-> body]

TextInit ==
    /\ url = <<>>
    /\ PipelineIdle
    /\ pc = "call"
    /\ arg \in SeqsUpTo(BodyTokens, MaxPageLen)
    /\ ret = None
    /\ svcLog = <<>>

ExtractText ==
    /\ pc = "call"
    /\ ret' = extract_malayalam_text(BeautifulSoup(BodyHtml(arg)))
    /\ pc' = "done"
    /\ UNCHANGED <<pipelineVars, svcLog, arg>>

TextNext == ExtractText

SpecText == TextInit /\ [][TextNext]_vars

(***************************************************************************)
(* translate_text_if_needed called at line 123 on every title of at most   *)
(* MaxTextLen code points; arg keeps the text it was called on.            *)
(***************************************************************************)
TextChars == {SPACE, 65, MAL_LO - 1, MAL_LO, MAL_HI, MAL_HI + 1}

\* the state at line 123, for any title
TranslateInit ==
    /\ url = <<>>
    /\ fetched = "pending"
    /\ html = EmptyHtml
    /\ soup = NoSoup
    /\ media_source = None
    /\ article = NoArticle
    /\ title \in SeqsUpTo(TextChars, MaxTextLen)
    /\ arg = title
    /\ summary = None
    /\ found = NoFound
    /\ pub_date_str = None
    /\ result = <<>>
    /\ exc = NoException
    /\ response = NoResponse
    /\ pc = "translate_title"
    /\ ret = None
    /\ svcLog = <<>>

TranslateNext == TranslateTitle

SpecTranslate == TranslateInit /\ [][TranslateNext]_vars

(***************************************************************************)
(* extract_malayalam_date called on its own, on a day, a month name and a  *)
(* year with separators between them and at most MaxPad code points before *)
(* and after.  arg.month is the month's place in MALAYALAM_MONTHS, or 0    *)
(* for the English name "December".                                        *)
(***************************************************************************)
PadChars == {SPACE, 10, 120}                           \* " ", "\n", "x"
Days == {<<55>>, <<48, 55>>, <<50, 57>>, <<51, 49>>}   \* "7", "07", "29", "31"
Seps == {<<SPACE>>, <<45>>, <<44, SPACE>>}             \* " ", "-", ", "
Years == {<<50, 48, 50, 51>>, <<50, 48, 50, 52>>}      \* "2023", "2024"
MonthPlaces == {0, 2, 12, 13}                          \* December, and the items of February, December

DateInputs ==
    [pre : SeqsUpTo(PadChars, MaxPad), day : Days, sep1 : Seps, month : MonthPlaces,
     sep2 : Seps, year : Years, post : SeqsUpTo(PadChars, MaxPad)]

MonthText(k) == IF k = 0 THEN month_name[12] ELSE MALAYALAM_MONTHS[k].ml

DateText(a) == a.pre \o a.day \o a.sep1 \o MonthText(a.month) \o a.sep2 \o a.year \o a.post

DateInit ==
    /\ url = <<>>
    /\ PipelineIdle
    /\ pc = "call"
    /\ arg \in DateInputs
    /\ ret = None
    /\ svcLog = <<>>

ExtractDate ==
    /\ pc = "call"
    /\ ret' = extract_malayalam_date(DateText(arg))
    /\ pc' = "done"
    /\ UNCHANGED <<pipelineVars, svcLog, arg>>

DateNext == ExtractDate

SpecDate == DateInit /\ [][DateNext]_vars

(***************************************************************************)
(* Lines 98-100 run on the urls of hosts made of a subdomain, a domain     *)
(* label with at most MaxUpper of its letters in upper case, and a public  *)
(* suffix (or none).                                                       *)
(***************************************************************************)
DomainLabels ==
    { <<110, 101, 119, 115, 49, 56>>,                       \* "news18"
      <<116, 104, 101, 104, 105, 110, 100, 117>>,           \* "thehindu"
      <<111, 110, 109, 97, 110, 111, 114, 97, 109, 97>>,    \* "onmanorama"
      <<109, 97, 110, 111, 114, 97, 109, 97>>,              \* "manorama"
      <<98, 98, 99>> }                                      \* "bbc"

Subdomains ==
    { <<>>,
      << <<87, 87, 87>> >>,                                 \* WWW
      << <<109>>, <<110, 101, 119, 115, 49, 56>> >> }       \* m.news18

HostSuffixes == PUBLIC_SUFFIXES \cup {<<>>, << <<67, 111>>, <<73, 78>> >>}     \* none; Co.IN

WithUpper(label, ups) == [i \in 1..Len(label) |-> IF i \in ups THEN upper(label[i]) ELSE label[i]]

PublisherInputs ==
    UNION {{[sub |-> sd, label |-> l, ups |-> u, suffix |-> sf] :
                sd \in Subdomains, sf \in HostSuffixes,
                u \in {x \in SUBSET (1..Len(l)) : Cardinality(x) <= MaxUpper}} :
           l \in DomainLabels}

ArgUrl(a) ==
    UrlString(HTTPS, a.sub \o <<WithUpper(a.label, a.ups)>> \o a.suffix, PATH_DATED, <<>>)

PublisherInit ==
    /\ arg \in PublisherInputs
    /\ url = ArgUrl(arg)
    /\ PipelineIdle
    /\ pc = "publisher"
    /\ ret = None
    /\ svcLog = <<>>

PublisherNext == Publisher

SpecPublisher == PublisherInit /\ [][PublisherNext]_vars

(***************************************************************************)
(* Properties.                                                             *)
(***************************************************************************)
DASH == <<45>>     \* "-"

\* what each date tier produced (None: nothing)
TierA == IF found.raised \/ found.value = None \/ found.value = <<>> THEN None ELSE found.value

TierB == extract_malayalam_date(soup.text)

TierC ==
    IF article.state # "none" /\ article.publish_date.kind = "datetime"
    THEN strftime(article.publish_date.date)
    ELSE None

UrlDate(u) ==
    LET match == re_search_url_date(u)
    IN  IF match = NoMatch THEN None ELSE match[1] \o DASH \o match[2] \o DASH \o match[3]

TierD == UrlDate(url)

Tiers == <<TierA, TierB, TierC, TierD>>

DATE_2024_12_07 == <<50, 48, 50, 52, 45, 49, 50, 45, 48, 55>>     \* "2024-12-07"

UrlPath(u) ==
    LET i == IndexOf(u, SCHEME_SEP)
        afterScheme == IF i = 0 THEN u ELSE Drop(u, i + 2)
        fromPath == Drop(afterScheme, Len(UpTo(afterScheme, {47, 63, 35})))
    IN  UpTo(fromPath, {63, 35})

\* no network target: the raw fetch failed, the article's download or parse
\* failed with nothing downloaded (so no publish date was read), and date
\* inference gave nothing
Unreachable ==
    /\ fetched = "fail"
    /\ article.state \in {"download_failed", "parse_failed"}
    /\ article.publish_date = NoPublishDate
    /\ TierA = None

WellFormed(r) ==
    /\ DOMAIN r = {"url", "media_source", "date", "title", "summary"}
    /\ r.title = NO_TITLE
    /\ r.summary = NO_SUMMARY

\* C2: with no reachable network target (and no fault in a call that no try
\* block guards) the endpoint answers 200 with a record whose title is "No
\* Title Found", whose summary is "No readable Malayalam content found." and
\* whose date is "Date Not Found" unless the URL's path holds a date, in which
\* case it is that date.
C2_DateFromUrlPathOnly ==
    (pc = "responded" /\ Unreachable /\ exc = NoException) =>
        /\ response.status = 200
        /\ WellFormed(response.content)
        /\ response.content.date =
              (IF UrlDate(UrlPath(url)) # None THEN UrlDate(UrlPath(url)) ELSE NO_DATE)

\* C2 amended: the same, with the date "Date Not Found" unless the URL, anywhere
\* in it (host, path or query), holds "/" followed by a YYYY, MM, DD digit group
\* separated by "/" or "-", in which case it is the first such group as
\* YYYY-MM-DD.
C2_DateFromWholeUrl ==
    (pc = "responded" /\ Unreachable /\ exc = NoException) =>
        /\ response.status = 200
        /\ WellFormed(response.content)
        /\ response.content.date = (IF UrlDate(url) # None THEN UrlDate(url) ELSE NO_DATE)

\* an unreachable target whose URL holds no date in its path and one in its query
C2_Witness ==
    /\ pc = "responded"
    /\ Unreachable
    /\ response.status = 200
    /\ UrlDate(UrlPath(url)) = None
    /\ UrlDate(url) # None
    /\ response.content.date = UrlDate(url)

\* the title the <title> of the fetched page gives, translated or not
FromTitleTag(t) ==
    \E svc \in SvcOutcomes : t = translate_text_if_needed(strip(html.title), svc)

\* C4: whenever the structured parse yields no title (it failed, or completed
\* with an empty title) and the fetched page has a non-empty <title>, the
\* returned title is derived from that <title>, not the sentinel.
C4_TitleTagFallback ==
    (/\ pc = "returned"
     /\ article.state # "parsed" \/ article.title = <<>>
     /\ html.hasTitle /\ html.title # <<>>)
        => FromTitleTag(result[1].title)

\* some <p> of the page holds a Malayalam code point
AnyMalayalamParagraph ==
    \E i \in 1..Len(soup.paras) : \E n \in 1..Len(soup.paras[i]) :
        \E k \in 1..Len(soup.paras[i][n]) : soup.paras[i][n][k] \in MAL_LO..MAL_HI

SummaryCalls == SelectSeq(svcLog, LAMBDA e : e.by = "summary")

\* C6: if no paragraph of the page holds a Malayalam code point the summary is
\* "No readable Malayalam content found." and the translation service is not
\* called for it; otherwise the summary is not that default but the extracted
\* text as translate_text_if_needed gives it (the service's answer, or the
\* text itself when the service fails).
C6_SummarySentinel ==
    summary # None =>
        /\ ~AnyMalayalamParagraph => (summary = NO_SUMMARY /\ SummaryCalls = <<>>)
        /\ AnyMalayalamParagraph =>
              /\ summary # NO_SUMMARY
              /\ Len(SummaryCalls) = 1
              /\ SummaryCalls[1].text = extract_malayalam_text(soup)
              /\ summary = (IF SummaryCalls[1].outcome.ok
                            THEN SummaryCalls[1].outcome.out
                            ELSE SummaryCalls[1].text)

\* a fetched page with paragraphs, none of them Malayalam, while the title was
\* sent to the service
C6_Witness ==
    /\ pc = "returned"
    /\ fetched = "ok"
    /\ soup.paras # <<>>
    /\ ~AnyMalayalamParagraph
    /\ svcLog # <<>>
    /\ result[1].summary = NO_SUMMARY

\* C8: every record returned has exactly the fields url, media_source, date,
\* title and summary, and its url is the request's url.
C8_RecordShape ==
    result # <<>> =>
        /\ DOMAIN result[1] = {"url", "media_source", "date", "title", "summary"}
        /\ result[1].url = url

\* a record returned after every fallback ran, for a URL with a query
C8_Witness ==
    /\ pc = "returned"
    /\ fetched = "fail"
    /\ article.state = "none"
    /\ Contains(url, QUERY_DATED)
    /\ result[1].url = url

\* C9: the endpoint answers 200 with the record whenever analyze_news_article
\* returned, and 500 with the exception's message as detail whenever it raised;
\* it answers nothing else.
C9_EndpointStatus ==
    pc = "responded" =>
        /\ (result # <<>>) # (exc # NoException)
        /\ result # <<>> => (response.status = 200 /\ response.content = result[1])
        /\ exc # NoException => (response.status = 500 /\ response.detail = exc.msg)

\* the endpoint answered 500 for an exception with a message
C9_Witness ==
    /\ pc = "responded"
    /\ exc # NoException
    /\ exc.msg # <<>>
    /\ response.status = 500
    /\ response.detail = exc.msg

\* C7: translate_text_if_needed returns its input unchanged except when the
\* service translated a text that holds a Malayalam code point: a text with
\* none (the empty text too) is returned as it is without a call to the
\* service, and when the call fails the text is returned as it is.
C7_TranslateUnchanged ==
    pc = "summary" =>
        LET mal == \E i \in 1..Len(arg) : arg[i] \in MAL_LO..MAL_HI
        IN  /\ ~mal => (title = arg /\ svcLog = <<>>)
            /\ (svcLog # <<>> /\ ~svcLog[1].outcome.ok) => title = arg
            /\ title # arg =>
                  (mal /\ svcLog # <<>> /\ svcLog[1].outcome.ok /\ title = svcLog[1].outcome.out)

\* the service was called on a Malayalam text and failed
C7_Witness ==
    /\ pc = "summary"
    /\ \E i \in 1..Len(arg) : arg[i] \in MAL_LO..MAL_HI
    /\ Len(svcLog) = 1
    /\ ~svcLog[1].outcome.ok
    /\ svcLog[1].text = arg
    /\ title = arg

\* the dates the calendar has among the inputs
ValidDay(a) ==
    LET d == IF a.day = <<55>> \/ a.day = <<48, 55>> THEN 7
             ELSE IF a.day = <<50, 57>> THEN 29 ELSE 31
    IN  a.month \in {12, 13} \/ d = 7 \/ (d = 29 /\ a.year = <<50, 48, 50, 52>>)

\* the separators of "day Month year", "day-Month-year", "day Month, year"
FormatSeps == {<< <<SPACE>>, <<SPACE>> >>, << <<45>>, <<45>> >>, << <<SPACE>>, <<44, SPACE>> >>}

IsDateLiteral(a) == a.month # 0 /\ <<a.sep1, a.sep2>> \in FormatSeps /\ ValidDay(a)

LiteralDate(a) ==
    a.year \o DASH \o (IF a.month = 2 THEN <<48, 50>> ELSE <<49, 50>>) \o DASH
        \o (IF Len(a.day) = 1 THEN <<48>> \o a.day ELSE a.day)

\* C3: whenever the text holds a Malayalam month name with a day and a year in
\* one of the three formats, also as a part of a longer text, the result is
\* that date as YYYY-MM-DD.
C3_DateInsideLongerText ==
    (pc = "done" /\ IsDateLiteral(arg)) => ret = LiteralDate(arg)

\* what the code does give: the date when the literal is the whole text
\* (a single space before a one-digit day is read as part of the day)
DateLiteralAlone ==
    (pc = "done" /\ IsDateLiteral(arg) /\ arg.pre = <<>> /\ arg.post = <<>>)
        => ret = LiteralDate(arg)

MapKeys == {MEDIA_MAP[i].key : i \in 1..Len(MEDIA_MAP)}

\* C5: media_source is the MEDIA_MAP name of the URL's registered domain label
\* when that label, letter case ignored, subdomain and public suffix ignored,
\* is a key of the map, and otherwise the label capitalized.
C5_MediaSource ==
    pc = "title" =>
        media_source =
            IF arg.label \in MapKeys
            THEN MEDIA_MAP[CHOOSE i \in 1..Len(MEDIA_MAP) : MEDIA_MAP[i].key = arg.label].val
            ELSE <<arg.label[1] - 32>> \o Tail(arg.label)

\* a key of the map written with upper-case letters, under a subdomain and a
\* two-label public suffix
C5_Witness ==
    /\ pc = "title"
    /\ arg.label \in MapKeys
    /\ arg.ups # {}
    /\ Len(arg.sub) = 2
    /\ Len(arg.suffix) = 2
    /\ media_source # capitalize(arg.label)

(***************************************************************************)
(* C10                                                                     *)
(***************************************************************************)
ArgParas == (BeautifulSoup([hasTitle |-> FALSE, title |-> <<>>, body |-> arg])).paras

\* the paragraphs with a Malayalam code point, in document order
KeptTexts ==
    LET texts == [i \in 1..Len(ArgParas) |-> get_text(ArgParas[i])]
    IN  SelectSeq(texts, LAMBDA t : \E i \in 1..Len(t) : t[i] \in MAL_LO..MAL_HI)

\* the code points of s at the positions kept, a code point outside the class
\* read as a space
AtPositions(s, keep(_)) ==
    LET idx == SelectSeq([i \in 1..Len(s) |-> i], keep)
    IN  [k \in 1..Len(idx) |->
            IF s[idx[k]] = SPACE \/ s[idx[k]] \in MAL_LO..MAL_HI THEN s[idx[k]] ELSE SPACE]

\* every code point outside the class removed
Removed(s) ==
    AtPositions(s, LAMBDA i : s[i] = SPACE \/ s[i] \in MAL_LO..MAL_HI)

\* every maximal run of code points outside the class become one space: of a
\* run only its first position is kept
RunsToSpace(s) ==
    AtPositions(s, LAMBDA i : \/ s[i] = SPACE \/ s[i] \in MAL_LO..MAL_HI
                              \/ i = 1
                              \/ s[i - 1] = SPACE \/ s[i - 1] \in MAL_LO..MAL_HI)

\* C10 as stated: the result is the paragraphs that hold a Malayalam code point,
\* in document order, each with every code point that is neither Malayalam nor
\* a space removed (its neighbours left adjacent) and trimmed, joined by single
\* spaces.
C10_StrippedByRemoval ==
    pc = "done" =>
        ret = join(<<SPACE>>, [i \in 1..Len(KeptTexts) |-> strip(Removed(KeptTexts[i]))])

\* C10 amended: the same, except that every maximal run of code points that are
\* neither Malayalam nor a space is replaced by one space; the result holds only
\* Malayalam code points and spaces.
C10_RunsReplacedBySpace ==
    pc = "done" =>
        /\ ret = join(<<SPACE>>, [i \in 1..Len(KeptTexts) |-> strip(RunsToSpace(KeptTexts[i]))])
        /\ \A i \in 1..Len(ret) : ret[i] = SPACE \/ ret[i] \in MAL_LO..MAL_HI

\* two kept paragraphs, one of which has a code point outside the class between
\* two Malayalam ones
C10_Witness ==
    /\ pc = "done"
    /\ Len(KeptTexts) = 2
    /\ \E k \in 1..2 : \E i \in 2..(Len(KeptTexts[k]) - 1) :
          /\ KeptTexts[k][i] = MAL_HI + 1
          /\ KeptTexts[k][i - 1] \in MAL_LO..MAL_HI
          /\ KeptTexts[k][i + 1] \in MAL_LO..MAL_HI

=============================================================================
